---- MODULE Spec2Model ----
(***************************************************************************)
(* ModelResponse (src/src/agentscope/models/response.py): the envelope of  *)
(* a model call and the generator that wraps its raw stream.               *)
(*                                                                         *)
(* An Optional value is a sequence of length at most one: None is <<>>,    *)
(* a present value x is <<x>>.  A raw chunk is a record: kind "str" with   *)
(* its string in .text, or kind "tuple" with chunk[0], chunk[1], chunk[2]  *)
(* in .reason, .text, .calls.                                              *)
(***************************************************************************)
EXTENDS Integers, Sequences, FiniteSets, TLC

VARIABLES
    args,       \* the arguments __init__ was called with (text, reason_text, tool_calls)
    self,       \* the ModelResponse: _text, _reason_text, tool_calls, _is_stream_exhausted
    _stream,    \* the raw generator handed to __init__ (present, chunks, cursor)
    views,      \* the generators self.stream has returned to consumers, in order
    ret         \* the last accessor call (text, reason_text, __str__) and its result

vars == <<args, self, _stream, views, ret>>

\* ------------------------------------------------------------------ bounds
MaxChunks == 3      \* the raw stream holds at most this many chunks

\* The consumers that may each hold a generator returned by self.stream: one
\* under Spec, two under SpecViews.
OneView == {1}
TwoViews == {1, 2}

\* ------------------------------------------------------------------ values
None == <<>>
Some(x) == <<x>>

StrChunk(s) == [kind |-> "str", reason |-> "", text |-> s, calls |-> <<>>]
TupleChunk(r, t, c) == [kind |-> "tuple", reason |-> r, text |-> t, calls |-> c]

Chunks ==
    { StrChunk("Hel"), StrChunk("Hello"),
      TupleChunk("r1", "t1", <<"f">>),
      TupleChunk("", "t2", <<>>) }

RECURSIVE SeqsUpTo(_, _)
SeqsUpTo(S, n) ==
    IF n = 0 THEN { <<>> }
    ELSE LET shorter == SeqsUpTo(S, n - 1)
         IN  shorter \cup { Append(q, x) : q \in { p \in shorter : Len(p) = n - 1 }, x \in S }

\* ------------------------------------------------------------ the raw source
\* next(self._stream): a generator yields its chunks in order, then either ends
\* (StopIteration) or raises; once it has ended or raised it is finished, and
\* every later next() raises StopIteration.
RawNext(src) ==
    IF src.finished
    THEN [src |-> src, res |-> "StopIteration", chunk |-> None]
    ELSE IF src.pos < Len(src.chunks)
    THEN [src |-> [src EXCEPT !.pos = @ + 1],
          res |-> "chunk", chunk |-> Some(src.chunks[src.pos + 1])]
    ELSE [src |-> [src EXCEPT !.finished = TRUE],
          res |-> IF src.ending = "raise" THEN "Error" ELSE "StopIteration",
          chunk |-> None]

\* ------------------------------------------------- _stream_generator_wrapper
\* f"[Thinking]\n{self._reason_text}\n[Answer]\n{self._text}"
Display(reason, text) == "[Thinking]\n" \o reason \o "\n[Answer]\n" \o text

\* self._reason_text is not None and len(self._reason_text) > 0
HasReason(s) == s._reason_text # None /\ s._reason_text[1] # ""

\* self._text or ""
TextOrEmpty(s) == IF s._text = None THEN "" ELSE s._text[1]

\* SetFromTuple with the tool calls merged into those already there.
SetFromTuple_merging(s, chunk) ==
    [s EXCEPT !._reason_text = Some(chunk.reason),
              !._text = Some(chunk.text),
              !.tool_calls = Some((IF s.tool_calls = None THEN <<>> ELSE s.tool_calls[1])
                                  \o chunk.calls)]

\* The three assignments from a tuple chunk.
SetFromTuple(s, chunk) ==
    [s EXCEPT !._reason_text = Some(chunk.reason),
              !._text = Some(chunk.text),
              !.tool_calls = Some(chunk.calls)]

\* The body of the for loop for one chunk, up to its yield.
LoopBody(s, chunk) ==
    IF chunk.kind = "tuple"
    THEN LET s1 == SetFromTuple(s, chunk)
         IN  [self |-> s1,
              out |-> [is_final |-> FALSE,
                       text |-> IF HasReason(s1)
                                THEN Display(s1._reason_text[1], s1._text[1])
                                ELSE s1._text[1]]]
    ELSE [self |-> [s EXCEPT !._text = Some(chunk.text)],
          out |-> [is_final |-> FALSE, text |-> chunk.text]]

\* After the for loop: last_chunk is applied again and the final marker yielded.
\* AfterLoop with the last yield not marked final.
AfterLoop_not_final(s, last_chunk) ==
    LET s1 == IF last_chunk.kind = "tuple"
              THEN SetFromTuple(s, last_chunk)
              ELSE [s EXCEPT !._text = Some(last_chunk.text)]
    IN  [self |-> s1,
         out |-> [is_final |-> FALSE,
                  text |-> IF HasReason(s1)
                           THEN Display(s1._reason_text[1], s1._text[1])
                           ELSE TextOrEmpty(s1)]]

\* AfterLoop whose final pair carries the bare text, never the reasoning.
AfterLoop_plain(s, last_chunk) ==
    LET s1 == IF last_chunk.kind = "tuple"
              THEN SetFromTuple(s, last_chunk)
              ELSE [s EXCEPT !._text = Some(last_chunk.text)]
    IN  [self |-> s1,
         out |-> [is_final |-> TRUE, text |-> TextOrEmpty(s1)]]

AfterLoop(s, last_chunk) ==
    LET s1 == IF last_chunk.kind = "tuple"
              THEN SetFromTuple(s, last_chunk)
              ELSE [s EXCEPT !._text = Some(last_chunk.text)]
    IN  [self |-> s1,
         out |-> [is_final |-> TRUE,
                  text |-> IF HasReason(s1)
                           THEN Display(s1._reason_text[1], s1._text[1])
                           ELSE TextOrEmpty(s1)]]

\* A generator frame: where it is suspended and its locals.
NewFrame == [pc |-> "created", last_chunk |-> None, chunk |-> None]

\* What one run of the generator, from a next() to its next suspension or end,
\* leaves behind: the response, the raw stream, the frame, the increment yielded
\* (if any), the exception raised (if any) and the number of next() calls it made
\* on the raw stream.
Step(s, src, g, out, err, pulls) ==
    [self |-> s, src |-> src, g |-> g, out |-> out, err |-> err, pulls |-> pulls]

\* `for chunk in self._stream:` from the head of the loop to the next yield.
ForLoop(s, src, g) ==
    LET n == RawNext(src)
    IN  IF n.res = "chunk"
        THEN LET b == LoopBody(s, n.chunk[1])
             IN  Step(b.self, n.src, [g EXCEPT !.pc = "yield_loop", !.chunk = n.chunk],
                      <<b.out>>, "", 1)
        ELSE IF n.res = "Error"
        THEN Step(s, n.src, [g EXCEPT !.pc = "raised"], <<>>, "Error", 1)
        ELSE LET a == AfterLoop(s, g.last_chunk[1])
             IN  Step(a.self, n.src, [g EXCEPT !.pc = "yield_final"], <<a.out>>, "", 1)

\* The first next() on the generator: the exhaustion check, then the first chunk.
\* Start that yields a final empty pair when the raw stream has no chunk.
Start_final_on_empty(s, src, g) ==
    IF s._is_stream_exhausted
    THEN Step(s, src, [g EXCEPT !.pc = "raised"], <<>>, "RuntimeError", 0)
    ELSE IF ~src.present
    THEN Step(s, src, [g EXCEPT !.pc = "done"], <<>>, "", 0)
    ELSE LET n == RawNext(src)
         IN  IF n.res = "chunk"
             THEN LET r == ForLoop(s, n.src, [g EXCEPT !.last_chunk = n.chunk])
                  IN  [r EXCEPT !.pulls = @ + 1]
             ELSE IF n.res = "Error"
             THEN Step(s, n.src, [g EXCEPT !.pc = "raised"], <<>>, "Error", 1)
             ELSE Step([s EXCEPT !._text = Some("")], n.src,
                       [g EXCEPT !.pc = "yield_final"],
                       <<[is_final |-> TRUE, text |-> ""]>>, "", 1)

Start(s, src, g) ==
    IF s._is_stream_exhausted
    THEN Step(s, src, [g EXCEPT !.pc = "raised"], <<>>, "RuntimeError", 0)
    ELSE IF ~src.present
    THEN Step(s, src, [g EXCEPT !.pc = "done"], <<>>, "", 0)
    ELSE LET n == RawNext(src)
         IN  IF n.res = "chunk"
             THEN LET r == ForLoop(s, n.src, [g EXCEPT !.last_chunk = n.chunk])
                  IN  [r EXCEPT !.pulls = @ + 1]
             ELSE IF n.res = "Error"
             THEN Step(s, n.src, [g EXCEPT !.pc = "raised"], <<>>, "Error", 1)
             ELSE Step(s, n.src, [g EXCEPT !.pc = "done"], <<>>, "", 1)

\* One next() on a generator that is not finished: runs it to its next yield,
\* its return or its raise.
Resume(s, src, g) ==
    IF g.pc = "created" THEN Start(s, src, g)
    ELSE IF g.pc = "yield_loop" THEN ForLoop(s, src, [g EXCEPT !.last_chunk = g.chunk])
    ELSE Step(s, src, [g EXCEPT !.pc = "done"], <<>>, "", 0)

\* ------------------------------------------------------------ the accessors
\* `for _, chunk in self.stream: self._text = chunk`, on a generator in frame g.
RECURSIVE DrainInto(_, _, _)
DrainInto(s, src, g) ==
    LET r == Resume(s, src, g)
    IN  IF r.err # "" \/ r.out = <<>>
        THEN [self |-> r.self, src |-> r.src, err |-> r.err, pulls |-> r.pulls]
        ELSE LET d == DrainInto([r.self EXCEPT !._text = Some(r.out[1].text)], r.src, r.g)
             IN  [d EXCEPT !.pulls = @ + r.pulls]

\* An accessor that finds its field set, or no raw stream: nothing is touched.
Untouched(s, src) == [self |-> s, src |-> src, err |-> "", pulls |-> 0]

\* The stream property: None without a raw stream, else a new generator.
stream(src) == IF ~src.present THEN None ELSE Some(NewFrame)

\* The is_stream_exhausted property.
is_stream_exhausted(s) == s._is_stream_exhausted

\* The text property returning the other field, as reason_text does.
text_other_field(s, src) ==
    LET d == IF s._text = None /\ stream(src) # None
             THEN DrainInto(s, src, stream(src)[1])
             ELSE Untouched(s, src)
    IN  [self |-> d.self, src |-> d.src, err |-> d.err, pulls |-> d.pulls,
         val |-> IF d.err = "" THEN d.self._reason_text ELSE None]

\* The text property without its `self._text is None` test.
text_always_drains(s, src) ==
    LET d == IF stream(src) # None
             THEN DrainInto(s, src, stream(src)[1])
             ELSE Untouched(s, src)
    IN  [self |-> d.self, src |-> d.src, err |-> d.err, pulls |-> d.pulls,
         val |-> IF d.err = "" THEN d.self._text ELSE None]

\* The text property: what it leaves behind and what it returns.
text(s, src) ==
    LET d == IF s._text = None /\ stream(src) # None
             THEN DrainInto(s, src, stream(src)[1])
             ELSE Untouched(s, src)
    IN  [self |-> d.self, src |-> d.src, err |-> d.err, pulls |-> d.pulls,
         val |-> IF d.err = "" THEN d.self._text ELSE None]

\* The reason_text property.
reason_text(s, src) ==
    LET d == IF s._reason_text = None /\ stream(src) # None
             THEN DrainInto(s, src, stream(src)[1])
             ELSE Untouched(s, src)
    IN  [self |-> d.self, src |-> d.src, err |-> d.err, pulls |-> d.pulls,
         val |-> IF d.err = "" THEN d.self._text ELSE None]

\* __str__: the "text" entry of serialized_fields is self.text.
serialized_fields(s, src) == text(s, src)

\* The record of one accessor call: what it returned or raised, and how many
\* times it called next() on the raw stream.
Call(op, r) == [op |-> op, val |-> r.val, err |-> r.err, pulled |-> r.pulls]

NoCall == [op |-> "none", val |-> None, err |-> "", pulled |-> 0]

\* ------------------------------------------------------------------ states
NoView == [g |-> [pc |-> "none", last_chunk |-> None, chunk |-> None],
           out |-> <<>>, err |-> "", requests |-> 0, pulled |-> 0]

Sources ==
    { [present |-> FALSE, chunks |-> <<>>, ending |-> "stop",
       pos |-> 0, finished |-> FALSE] }
    \cup { [present |-> TRUE, chunks |-> cs, ending |-> e,
            pos |-> 0, finished |-> FALSE]
           : cs \in SeqsUpTo(Chunks, MaxChunks), e \in {"stop", "raise"} }

\* __init__, for a given set of consumers.
Construct(ids) ==
    /\ args \in [text : {None, Some("v")}, reason_text : {None, Some("r0")},
                 tool_calls : {None, Some(<<"h">>)}]
    /\ self = [_text |-> args.text, _reason_text |-> args.reason_text,
               tool_calls |-> args.tool_calls, _is_stream_exhausted |-> FALSE]
    /\ _stream \in Sources
    /\ views = [v \in ids |-> NoView]
    /\ ret = NoCall

Init == Construct(OneView)

InitViews == Construct(TwoViews)

\* ----------------------------------------------------------------- actions
\* A consumer reads self.stream and gets a generator, not yet started.  (Without
\* a raw stream the property returns None and there is nothing to hold.)
GetStream ==
    /\ stream(_stream) # None
    /\ \E v \in DOMAIN views :
          /\ views[v].g.pc = "none"
          /\ \A u \in DOMAIN views : u < v => views[u].g.pc # "none"
          /\ views' = [views EXCEPT ![v].g = stream(_stream)[1]]
    /\ UNCHANGED <<args, self, _stream, ret>>

\* A consumer's next() on view v.
Pull(v) ==
    /\ views[v].g.pc \in {"created", "yield_loop", "yield_final"}
    /\ LET r == Resume(self, _stream, views[v].g)
       IN  /\ self' = r.self
           /\ _stream' = r.src
           /\ views' = [views EXCEPT ![v] =
                          [g |-> r.g, out |-> views[v].out \o r.out, err |-> r.err,
                           requests |-> views[v].requests + 1,
                           pulled |-> views[v].pulled + r.pulls]]
    /\ UNCHANGED <<args, ret>>

\* A consumer stops iterating view v partway: the generator is closed at the yield
\* where it stands (GeneratorExit there is not caught, and no finally runs).
Close(v) ==
    /\ views[v].g.pc = "yield_loop"
    /\ views' = [views EXCEPT ![v].g.pc = "closed"]
    /\ UNCHANGED <<args, self, _stream, ret>>

Accessor(op, r) ==
    /\ self' = r.self
    /\ _stream' = r.src
    /\ ret' = Call(op, r)
    /\ UNCHANGED <<args, views>>

GetText == Accessor("text", text(self, _stream))

GetReasonText == Accessor("reason_text", reason_text(self, _stream))

Serialize == Accessor("__str__", serialized_fields(self, _stream))

\* One consumer and the accessors.
Next ==
    \/ GetStream
    \/ \E v \in DOMAIN views : Pull(v)
    \/ \E v \in DOMAIN views : Close(v)
    \/ GetText
    \/ GetReasonText
    \/ Serialize

Spec == Init /\ [][Next]_vars

\* Two consumers, each with a generator of its own over the one raw stream.
NextViews ==
    \/ GetStream
    \/ \E v \in DOMAIN views : Pull(v)
    \/ \E v \in DOMAIN views : Close(v)

SpecViews == InitViews /\ [][NextViews]_vars

\* ------------------------------------------------------------------ claims
chunks == _stream.chunks
N == Len(chunks)

Inc(is_final, t) == [is_final |-> is_final, text |-> t]

AllStr == \A i \in 1..N : chunks[i].kind = "str"
AllTuples == \A i \in 1..N : chunks[i].kind = "tuple"

\* The response was built with a raw stream and nothing else.
OnlyRawSource ==
    /\ _stream.present
    /\ args.text = None /\ args.reason_text = None /\ args.tool_calls = None

\* View v has yielded its final marker, and every next() on the raw stream so far
\* was its own: it pulled the N chunks and the end of the stream.
Drained(v) == views[v].g.pc \in {"yield_final", "done"} /\ views[v].pulled = N + 1

\* View v was driven until it ended, after its final marker.
Completed(v) == Drained(v) /\ views[v].g.pc = "done" /\ N >= 1

\* C1: a raw stream of n >= 1 plain strings c1..cn, one view driven to completion:
\* the view yields (False, c1), ..., (False, cn), (True, cn), and the text property
\* then returns cn.
C1_StringIncrements ==
    \A v \in DOMAIN views :
        (OnlyRawSource /\ AllStr /\ Completed(v))
            => /\ views[v].out = [i \in 1..(N + 1) |->
                                    IF i <= N THEN Inc(FALSE, chunks[i].text)
                                    ELSE Inc(TRUE, chunks[N].text)]
               /\ text(self, _stream).val = Some(chunks[N].text)

\* C2: a raw stream of exactly one tuple chunk (r, t, calls) with r non-empty, one
\* view driven to completion: the view yields (False, D) then (True, D), D the
\* display text of r and t.
C2_SingleTupleIncrements ==
    \A v \in DOMAIN views :
        (OnlyRawSource /\ N = 1 /\ AllTuples /\ chunks[1].reason # "" /\ Completed(v))
            => LET D == Display(chunks[1].reason, chunks[1].text)
               IN  views[v].out = <<Inc(FALSE, D), Inc(TRUE, D)>>

\* The last text call found text unset and the raw stream untouched, and pulled
\* it to its natural end itself.
TextCallDrained ==
    /\ _stream.present /\ args.text = None /\ _stream.ending = "stop"
    /\ ret.op = "text" /\ ret.err = "" /\ ret.pulled = N + 1

\* C3: text unset and a non-empty raw stream: the first text call drains the raw
\* stream and returns the text of the last chunk (the string itself, or chunk[1]
\* of a tuple), never the display text.
C3_TextOfLastChunk ==
    (TextCallDrained /\ N >= 1)
        => _stream.finished /\ ret.val = Some(chunks[N].text)

\* C4: once a view has been driven to completion, the first next() on any other
\* view raises the RuntimeError of the exhaustion check.
C4_SecondIterationRaises ==
    [][\A u, v \in DOMAIN views :
          (u # v /\ Completed(u) /\ views[v].g.pc = "created"
                 /\ views'[v].g.pc # "created")
              => views'[v].err = "RuntimeError"]_vars

\* C5: is_stream_exhausted is False on a fresh response, and True once the raw
\* stream has been drained to its end or a consumer has abandoned a view partway.
C5_ExhaustedFlag ==
    /\ (ret = NoCall /\ \A v \in DOMAIN views : views[v].g.pc = "none")
           => ~is_stream_exhausted(self)
    /\ (\/ N >= 1 /\ _stream.finished /\ _stream.ending = "stop"
        \/ \E v \in DOMAIN views : views[v].g.pc = "closed")
           => is_stream_exhausted(self)

\* C6: after a raw stream of tuple chunks has been drained to completion, the
\* reason_text property returns chunk[0] of the last chunk.
C6_ReasonOfLastChunk ==
    (AllTuples /\ \E v \in DOMAIN views : Completed(v))
        => reason_text(self, _stream).val = Some(chunks[N].reason)

\* C7: after one view has drained a raw stream of tuple chunks, tool_calls is the
\* list of the last chunk alone, whatever the earlier chunks carried.
C7_LastToolCalls ==
    \A v \in DOMAIN views :
        (AllTuples /\ N >= 1 /\ Drained(v))
            => self.tool_calls = Some(chunks[N].calls)

\* A three-chunk drain on a response built with tool calls, whose second chunk
\* carried tool calls and whose last chunk carries none.
C7_Witness ==
    \E v \in DOMAIN views :
        /\ AllTuples /\ N = 3 /\ Drained(v)
        /\ args.tool_calls # None
        /\ chunks[2].calls # <<>> /\ chunks[3].calls = <<>>

\* C8: text given to __init__ and no raw stream: whatever accessors have been
\* called, _text is still that value and every text call returns it.
C8_TextWithoutStream ==
    (~_stream.present /\ args.text # None)
        => /\ self._text = args.text
           /\ text(self, _stream).val = args.text
           /\ (ret.op = "text" => ret.val = args.text /\ ret.err = "")

\* A text call made on a response built with text, a reason text and no stream.
C8_Witness ==
    /\ ~_stream.present /\ args.text = Some("v") /\ args.reason_text = Some("r0")
    /\ ret.op = "text" /\ ret.val = Some("v")

\* A second text call in the state a draining text call left: same value, no
\* exception, no next() on the raw stream.
SecondTextCallCached ==
    LET again == text(self, _stream)
    IN  again.val = ret.val /\ again.err = "" /\ again.pulls = 0

C10_FirstChunkVisible ==
    \A v \in DOMAIN views :
        (/\ OnlyRawSource /\ AllTuples /\ N = 2 /\ ret = NoCall
         /\ views[v].g.pc \in {"yield_loop", "closed"}
         /\ views[v].requests = 1 /\ Len(views[v].out) = 1)
            => /\ self._text = Some(chunks[1].text)
               /\ self._reason_text = Some(chunks[1].reason)

\* C11: once one view has yielded an increment, the first next() on any other view
\* raises; the other view gets no increment and calls next() on the raw stream
\* not once.
C11_OtherViewRaises ==
    [][\A u, v \in DOMAIN views :
          (u # v /\ Len(views[u].out) >= 1 /\ views[v].g.pc = "created"
                 /\ views'[v].g.pc # "created")
              => /\ views'[v].err = "RuntimeError"
                 /\ views'[v].out = <<>>
                 /\ views'[v].pulled = 0]_vars

\* C12: when next() on the raw stream raises, the consumer gets that exception and
\* no final marker, and is_stream_exhausted is True from then on.
C12_RawErrorExhausts ==
    \A v \in DOMAIN views :
        views[v].g.pc = "raised"
            => /\ views[v].err = "Error"
               /\ \A i \in 1..Len(views[v].out) : ~views[v].out[i].is_final
               /\ is_stream_exhausted(self)

\* What the loop yields for one chunk, as a function of the chunk alone.
ChunkDisplay(c) ==
    IF c.kind = "tuple" /\ c.reason # "" THEN Display(c.reason, c.text) ELSE c.text

\* ts occurs in ds as a subsequence: same elements, same order.
RECURSIVE InOrder(_, _)
InOrder(ts, ds) ==
    IF ts = <<>> THEN TRUE
    ELSE IF ds = <<>> THEN FALSE
    ELSE IF Head(ts) = Head(ds) THEN InOrder(Tail(ts), Tail(ds))
    ELSE InOrder(ts, Tail(ds))

\* C13: a view driven to completion over a non-empty raw stream yields exactly one
\* pair with is_final True, that pair is the last one, and the pairs before it
\* follow the order in which the chunks came out of the raw stream.
C13_OneFinalLastInOrder ==
    \A v \in DOMAIN views :
        Completed(v)
            => LET o == views[v].out
                   n == Len(o)
               IN  /\ n >= 1
                   /\ o[n].is_final
                   /\ \A i \in 1..(n - 1) : ~o[i].is_final
                   /\ InOrder([i \in 1..(n - 1) |-> o[i].text],
                              [i \in 1..N |-> ChunkDisplay(chunks[i])])

C13_Witness ==
    /\ Completed(1) /\ N = 3 /\ Len(views[1].out) = 3
    /\ chunks[2].kind = "tuple" /\ chunks[3].kind = "str"
    /\ chunks[2].text # chunks[3].text

\* C14: with _text None and a non-empty raw stream nobody has read, __str__ drains
\* the stream and its "text" entry is the resolved text: what the text property
\* returns afterwards, and the text of the last chunk.
C14_SerializeResolvedText ==
    (/\ _stream.present /\ args.text = None /\ _stream.ending = "stop" /\ N >= 1
     /\ ret.op = "__str__" /\ ret.pulled = N + 1)
        => /\ _stream.finished
           /\ ret.err = ""
           /\ ret.val = text(self, _stream).val
           /\ ret.val = Some(chunks[N].text)

\* C15: with an empty raw stream and _text None, a view ends without yielding
\* anything, the three fields keep their constructor values, and the text
\* property returns None.
C15_EmptyStream ==
    (_stream.present /\ N = 0 /\ _stream.ending = "stop" /\ args.text = None)
        => /\ \A v \in DOMAIN views :
                 /\ views[v].out = <<>>
                 /\ views[v].err = ""
                 /\ views[v].requests >= 1 => views[v].g.pc = "done"
           /\ self._text = args.text
           /\ self._reason_text = args.reason_text
           /\ self.tool_calls = args.tool_calls
           /\ text(self, _stream).val = None
           /\ ret.op = "text" => (ret.val = None /\ ret.err = "")

C15_Witness ==
    /\ _stream.present /\ N = 0 /\ _stream.ending = "stop" /\ args.text = None
    /\ views[1].requests >= 1 /\ views[1].g.pc = "done"
    /\ ret.op = "text"

\* C16: once the raw stream is drained, the reason_text property returns the
\* stored _reason_text, raises nothing, and calls next() on the raw stream not
\* once, also when only str chunks were drained and _reason_text is still None.
C16_ReasonTextAfterDrain ==
    \A v \in DOMAIN views :
        Completed(v)
            => LET r == reason_text(self, _stream)
               IN  /\ r.err = ""
                   /\ r.val = self._reason_text
                   /\ r.pulls = 0

\* The three fields and the flag are as the constructor left them.
AsConstructed ==
    /\ self._text = args.text
    /\ self._reason_text = args.reason_text
    /\ self.tool_calls = args.tool_calls
    /\ ~self._is_stream_exhausted

\* Nothing has called next() on the raw stream yet.
RawUnread == _stream.pos = 0 /\ ~_stream.finished

\* C17: the wrapper never reads ahead of its consumer: the stream property reads
\* no chunk and changes no field, and the chunks taken from the raw stream are
\* never more than the pairs the consumer has asked for.
C17_NoReadAhead ==
    (_stream.present /\ ret = NoCall)
        => /\ (\A v \in DOMAIN views : views[v].requests = 0)
                  => (RawUnread /\ AsConstructed)
           /\ _stream.pos <= views[1].requests

\* C18: with _text given and a raw stream, the text property and __str__ return
\* the given text and call next() on the raw stream not once; _reason_text,
\* tool_calls and is_stream_exhausted stay as they were.
C18_TextSetKeepsStream ==
    (_stream.present /\ args.text # None /\ RawUnread)
        => /\ AsConstructed
           /\ \A r \in {text(self, _stream), serialized_fields(self, _stream)} :
                 /\ r.val = args.text
                 /\ r.err = ""
                 /\ r.pulls = 0
                 /\ r.self = self
                 /\ r.src = _stream
           /\ ret.op \in {"text", "__str__"}
                 => (ret.val = args.text /\ ret.err = "" /\ ret.pulled = 0)

C18_Witness ==
    /\ _stream.present /\ args.text # None /\ RawUnread /\ N >= 2
    /\ ret.op = "__str__" /\ ret.val = args.text

\* The last two pairs a view yielded carry the same text.
FinalRepeatsLast(v) ==
    LET o == views[v].out
    IN  Len(o) >= 2 /\ o[Len(o)].is_final /\ o[Len(o)].text = o[Len(o) - 1].text

\* C19: in every complete drain of a raw stream of two or more chunks, whatever
\* the kinds of the chunks and whatever reason_text the constructor got, the
\* final pair carries the same text as the last non-final pair.
C19_FinalRepeatsLast ==
    \A v \in DOMAIN views : (Completed(v) /\ N >= 2) => FinalRepeatsLast(v)

\* C19 as the code has it: the final pair repeats the last non-final pair when
\* the last chunk is a tuple, or when no non-empty _reason_text is in effect at
\* the end of the drain.
C19_FinalRepeatsLastTuple ==
    \A v \in DOMAIN views :
        (Completed(v) /\ N >= 2 /\ (chunks[N].kind = "tuple" \/ ~HasReason(self)))
            => FinalRepeatsLast(v)

C19_Witness ==
    /\ Completed(1) /\ N >= 2 /\ chunks[N].kind = "tuple" /\ HasReason(self)
    /\ FinalRepeatsLast(1)

\* The object and its raw stream as the constructor left them.
FreshSelf ==
    [_text |-> args.text, _reason_text |-> args.reason_text,
     tool_calls |-> args.tool_calls, _is_stream_exhausted |-> FALSE]

FreshStream == [_stream EXCEPT !.pos = 0, !.finished = FALSE]

\* C20: for the same chunks, the text property that drains the raw stream itself
\* returns what the text property returns after a consumer has iterated a view
\* to its final pair.
C20_TextSameEitherWay ==
    \A v \in DOMAIN views :
        (Completed(v) /\ args.text = None /\ _stream.ending = "stop")
            => text(self, _stream).val = text(FreshSelf, FreshStream).val

\* The final pairs yielded so far, over all views.
FinalMarkers ==
    {p \in UNION {{<<v, i>> : i \in 1..Len(views[v].out)} : v \in DOMAIN views} :
        views[p[1]].out[p[2]].is_final}

\* C21: however the next() calls on two views interleave, once the raw stream has
\* ended and both views have finished, _text (and tool_calls when the last chunk
\* is a tuple) are those of the last chunk the raw stream gave, and the two views
\* together have yielded at most one final pair.
C21_TwoViewsLastChunk ==
    (/\ _stream.present /\ N >= 1
     /\ _stream.finished /\ _stream.ending = "stop"
     /\ \A v \in DOMAIN views : views[v].g.pc = "done")
        => /\ self._text = Some(chunks[N].text)
           /\ chunks[N].kind = "tuple" => self.tool_calls = Some(chunks[N].calls)
           /\ Cardinality(FinalMarkers) <= 1

====
